---- MODULE Spec2Model ----
(***************************************************************************)
(* Model of the "PDF to Podcast" Streamlit script (src/Main.py).           *)
(*                                                                         *)
(* The script is executed top to bottom on every user interaction (a       *)
(* "rerun").  One rerun is modelled as a chain of steps that are broken    *)
(* only where the script blocks on network I/O:                            *)
(*                                                                         *)
(*   idle --user event--> sidebar -> upload [-> summarizing] -> qa         *)
(*        [-> answering] -> tts [-> synthesizing] -> idle                  *)
(*                                                                         *)
(* A rerun runs to completion before the next user event is taken (the     *)
(* script runs single-threaded per session).                               *)
(***************************************************************************)
EXTENDS Integers, Sequences, FiniteSets, TLC

\* ---------------------------------------------------------------- bounds
\* number of distinct uploadable documents that contain text
NumDocs == 2
\* number of distinct non-empty texts the language model can generate
NumSummaries == 2

\* ------------------------------------------------------- value universe
\* Python's None, for variables that hold a string or None
None == "None"

\* Python truth test on a str-or-None value (`if x:` / `if not x:`)
TruthyPresentOnly(x) == x # None
Truthy(x) == x # None /\ x # ""

KeyValues == {"", "key"}
Questions == {"", "why?"}

DocNames == {"doc" \o ToString(i) \o ".pdf" : i \in 1..NumDocs}
FileNames == {"corrupt.pdf", "blank.pdf"} \cup DocNames

\* What PyPDF2 sees in an uploaded file: whether PdfReader can parse it and
\* the text each page yields.
FileContent(name) ==
    CASE name = "corrupt.pdf" -> [parses |-> FALSE, pages |-> <<>>]
      [] name = "blank.pdf"   -> [parses |-> TRUE,  pages |-> <<"", "">>]
      [] OTHER                -> [parses |-> TRUE,  pages |-> <<name, ":p2">>]

RECURSIVE ConcatPages(_, _)
\* the loop of lines 47-49: text += pages[page_num].extract_text()
ConcatPages(pages, n) ==
    IF n = 0 THEN "" ELSE ConcatPages(pages, n - 1) \o pages[n]

ExtractTextFromPdfErrorText(name) ==
    IF FileContent(name).parses
    THEN ConcatPages(FileContent(name).pages, Len(FileContent(name).pages))
    ELSE "Error extracting text from PDF"
ExtractTextFromPdf(name) ==
    IF FileContent(name).parses
    THEN ConcatPages(FileContent(name).pages, Len(FileContent(name).pages))
    ELSE None

\* ------------------------------------------ language-model endpoint
\* Outcomes of requests.post at line 78, by index:
\*   1            network-level failure (RequestException raised by post)
\*   2            HTTP 429
\*   3            HTTP 500
\*   4            2xx, body is not JSON
\*   5 .. 10      2xx, JSON envelope cut off at successive steps of the
\*                candidates[0].content.parts[0].text path
\*   11           2xx, well-formed envelope whose text is ""
\*   12 ..        2xx, well-formed envelope with a generated text
NumFixedOutcomes == 11
GeminiOutcomes == 1..(NumFixedOutcomes + NumSummaries)

GenText(i) == "summary" \o ToString(i - NumFixedOutcomes)

Part(t) == <<[text |-> t]>>
WellFormed(t) == [candidates |-> <<[content |-> [parts |-> Part(t)]]>>]

\* the parsed JSON body of outcome i (only read for 2xx JSON outcomes)
Envelope(i) ==
    CASE i = 5  -> <<>>
      [] i = 6  -> [error |-> "x"]
      [] i = 7  -> [candidates |-> <<>>]
      [] i = 8  -> [candidates |-> <<[finishReason |-> "SAFETY"]>>]
      [] i = 9  -> [candidates |-> <<[content |-> [role |-> "model"]]>>]
      [] i = 10 -> [candidates |-> <<[content |-> [parts |-> <<[inlineData |-> "x"]>>]]>>]
      [] i = 11 -> WellFormed("")
      [] OTHER  -> WellFormed(GenText(i))

GeminiResponse(i) ==
    [transportError |-> (i = 1),
     status         |-> (CASE i = 2 -> 429 [] i = 3 -> 500 [] OTHER -> 200),
     isJson         |-> (i >= 5)]

\* dict.get(k) followed by a truth test: key present and value non-empty
GetTruthy(d, k) == k \in DOMAIN d /\ DOMAIN d[k] # {}

\* line 82
EnvelopeValid(result) ==
    /\ DOMAIN result # {}
    /\ GetTruthy(result, "candidates")
    /\ GetTruthy(result["candidates"][1], "content")
    /\ GetTruthy(result["candidates"][1]["content"], "parts")

\* line 57: the key check made before any network call
GeminiRequestSent(gemini_api_key) == Truthy(gemini_api_key)

\* lines 77-96: what call_gemini_api returns for outcome i of the request.
\* jsonErrIsRequestException: whether the installed requests raises its own
\* JSONDecodeError (a RequestException) or a plain ValueError from json().
CallGeminiApi(i, jsonErrIsRequestException) ==
    LET r == GeminiResponse(i) IN
    IF r.transportError THEN [ret |-> None, kind |-> "TransportError"]
    ELSE IF r.status >= 400 THEN [ret |-> None, kind |-> "HttpError"]
    ELSE IF ~r.isJson
         THEN [ret |-> None,
               kind |-> IF jsonErrIsRequestException
                        THEN "TransportError" ELSE "Unexpected"]
    ELSE IF EnvelopeValid(Envelope(i))
         THEN IF "text" \in DOMAIN Envelope(i)["candidates"][1]["content"]["parts"][1]
              THEN [ret |-> Envelope(i)["candidates"][1]["content"]["parts"][1]["text"],
                    kind |-> "Ok"]
              ELSE [ret |-> None, kind |-> "Unexpected"]
    ELSE [ret |-> None, kind |-> "MalformedResponse"]

\* ------------------------------------------------- speech endpoint
\* Outcomes of requests.post at line 132
SpeechOutcomes == {"transport", "http401", "audio", "emptybody"}

\* line 112
SpeechRequestSent(elevenlabs_api_key) == Truthy(elevenlabs_api_key)

\* lines 130-143
TextToSpeechElevenlabs(o) ==
    CASE o = "transport" -> [ret |-> None, kind |-> "TransportError"]
      [] o = "http401"   -> [ret |-> None, kind |-> "HttpError"]
      [] o = "audio"     -> [ret |-> "mp3", kind |-> "Ok"]
      [] OTHER           -> [ret |-> "", kind |-> "Ok"]

\* ------------------------------------------------ branch conditions
\* line 164
TextExtracted(text) == Truthy(text)
\* line 166
SummarizeAttempted(key) == Truthy(key)
\* lines 168-173
SummaryKeptOnFailure(summarized_text, old) ==
    IF Truthy(summarized_text) THEN summarized_text ELSE old
SummaryAfterSummarize(summarized_text, old) ==
    IF Truthy(summarized_text) THEN summarized_text ELSE None
\* line 178
SummaryKeptOnFailedExtraction(old) == old
SummaryAfterFailedExtraction(old) == None
\* line 181
QuestionSectionAlwaysShown(text) == TRUE
QuestionSectionShown(text) == Truthy(text)
\* line 208
SpeechSectionShown(summary) == Truthy(summary)

VARIABLES
    pc,                  \* position of the script within the current rerun
    uploaded_file,       \* file held by st.file_uploader (None or a name)
    gemini_key_input,    \* value of the "Gemini API Key" widget
    elevenlabs_key_input,\* value of the "ElevenLabs API Key" widget
    user_question,       \* value of the question text area
    clicked,             \* button whose click triggered this rerun
    gemini_api_key,      \* st.session_state.gemini_api_key
    elevenlabs_api_key,  \* st.session_state.elevenlabs_api_key
    extracted_pdf_text,  \* st.session_state.extracted_pdf_text
    last_summary,        \* st.session_state.last_summary
    qaOffered,           \* "Get Answer" button rendered by the last rerun
    ttsOffered,          \* "Generate Podcast Audio" rendered by the last rerun
    answer,              \* answer shown by this rerun
    audio_bytes,         \* audio shown by this rerun
    \* ---- history variables (observations, not program state)
    lastEvent,           \* kind of the user event that started this rerun
    sumCalls, qaCalls, ttsCalls, \* requests sent during this rerun
    gemOutcome,          \* outcome index of the last language-model request
    gemResult,           \* what call_gemini_api returned for it
    sumResult,           \* kind of this rerun's summarization result
    qaResult,            \* kind of this rerun's question-answering result
    ttsResult,           \* kind of this rerun's speech result
    summaryOf,           \* extracted text last_summary was generated from
    lastGood,            \* text of the latest successful summarization
    preText, preSummary  \* session state when the user event was taken

vars == <<pc, uploaded_file, gemini_key_input, elevenlabs_key_input,
          user_question, clicked, gemini_api_key, elevenlabs_api_key,
          extracted_pdf_text, last_summary, qaOffered, ttsOffered, answer,
          audio_bytes, lastEvent, sumCalls, qaCalls, ttsCalls, gemOutcome,
          gemResult, sumResult, qaResult, ttsResult, summaryOf, lastGood,
          preText, preSummary>>

session == <<gemini_api_key, elevenlabs_api_key, extracted_pdf_text,
             last_summary>>
widgets == <<uploaded_file, gemini_key_input, elevenlabs_key_input,
             user_question, clicked>>
history == <<lastEvent, sumCalls, qaCalls, ttsCalls, gemOutcome, gemResult,
             sumResult, qaResult, ttsResult, summaryOf, lastGood, preText,
             preSummary>>

runCalls == sumCalls + qaCalls + ttsCalls

NoResult == [ret |-> None, kind |-> "NoCall"]

\* lines 19-26 on the first run of a session, widgets at their defaults
Init ==
    /\ pc = "idle"
    /\ uploaded_file = None
    /\ gemini_key_input = ""
    /\ elevenlabs_key_input = ""
    /\ user_question = ""
    /\ clicked = "none"
    /\ gemini_api_key = ""
    /\ elevenlabs_api_key = ""
    /\ extracted_pdf_text = ""
    /\ last_summary = None
    /\ qaOffered = FALSE
    /\ ttsOffered = FALSE
    /\ answer = None
    /\ audio_bytes = None
    /\ lastEvent = "none"
    /\ sumCalls = 0 /\ qaCalls = 0 /\ ttsCalls = 0
    /\ gemOutcome = 0
    /\ gemResult = NoResult
    /\ sumResult = "NoCall" /\ qaResult = "NoCall" /\ ttsResult = "NoCall"
    /\ summaryOf = None
    /\ lastGood = None
    /\ preText = ""
    /\ preSummary = None

\* ----------------------------------------------------------- user events
\* Any widget interaction makes Streamlit rerun the script from line 1.
BeginRerun(event) ==
    /\ pc = "idle"
    /\ pc' = "sidebar"
    /\ lastEvent' = event
    /\ answer' = None /\ audio_bytes' = None
    /\ sumCalls' = 0 /\ qaCalls' = 0 /\ ttsCalls' = 0
    /\ sumResult' = "NoCall" /\ qaResult' = "NoCall" /\ ttsResult' = "NoCall"
    /\ preText' = extracted_pdf_text
    /\ preSummary' = last_summary
    /\ UNCHANGED <<session, qaOffered, ttsOffered, gemOutcome, gemResult,
                   summaryOf, lastGood>>

\* line 147: the user puts a file into the uploader
Upload(f) ==
    /\ f # uploaded_file
    /\ BeginRerun("upload")
    /\ uploaded_file' = f
    /\ clicked' = "none"
    /\ UNCHANGED <<gemini_key_input, elevenlabs_key_input, user_question>>

\* line 147: the user removes the file from the uploader
RemoveFile ==
    /\ uploaded_file # None
    /\ BeginRerun("remove")
    /\ uploaded_file' = None
    /\ clicked' = "none"
    /\ UNCHANGED <<gemini_key_input, elevenlabs_key_input, user_question>>

\* line 28: the user edits the Gemini key field
EditGeminiKey(k) ==
    /\ k # gemini_key_input
    /\ BeginRerun("key")
    /\ gemini_key_input' = k
    /\ clicked' = "none"
    /\ UNCHANGED <<uploaded_file, elevenlabs_key_input, user_question>>

\* line 34: the user edits the ElevenLabs key field
EditElevenlabsKey(k) ==
    /\ k # elevenlabs_key_input
    /\ BeginRerun("key")
    /\ elevenlabs_key_input' = k
    /\ clicked' = "none"
    /\ UNCHANGED <<uploaded_file, gemini_key_input, user_question>>

\* line 183: the user edits the question (the text area exists only when
\* the question section was rendered)
EditQuestion(q) ==
    /\ qaOffered
    /\ q # user_question
    /\ BeginRerun("question")
    /\ user_question' = q
    /\ clicked' = "none"
    /\ UNCHANGED <<uploaded_file, gemini_key_input, elevenlabs_key_input>>

\* line 189: the user clicks "Get Answer"
ClickGetAnswer ==
    /\ qaOffered
    /\ BeginRerun("answer")
    /\ clicked' = "answer"
    /\ UNCHANGED <<uploaded_file, gemini_key_input, elevenlabs_key_input,
                   user_question>>

\* line 210: the user clicks "Generate Podcast Audio"
ClickGenerateAudio ==
    /\ ttsOffered
    /\ BeginRerun("audio")
    /\ clicked' = "audio"
    /\ UNCHANGED <<uploaded_file, gemini_key_input, elevenlabs_key_input,
                   user_question>>

\* ---------------------------------------------------------- script steps
\* lines 19-39: session keys take the values of the sidebar widgets
Sidebar ==
    /\ pc = "sidebar"
    /\ gemini_api_key' = gemini_key_input
    /\ elevenlabs_api_key' = elevenlabs_key_input
    /\ pc' = "upload"
    /\ UNCHANGED <<widgets, extracted_pdf_text, last_summary, qaOffered,
                   ttsOffered, answer, audio_bytes, history>>

\* lines 154-178, up to the point where the summarization request is sent
UploadBranch ==
    /\ pc = "upload"
    /\ IF uploaded_file = None
       THEN /\ pc' = "qa"
            /\ UNCHANGED <<extracted_pdf_text, last_summary, sumCalls,
                           sumResult>>
       ELSE LET extracted_text == ExtractTextFromPdf(uploaded_file) IN
            /\ extracted_pdf_text' = extracted_text
            /\ IF TextExtracted(extracted_text)
               THEN IF SummarizeAttempted(gemini_api_key)
                    THEN IF GeminiRequestSent(gemini_api_key)
                         THEN /\ pc' = "summarizing"
                              /\ sumCalls' = sumCalls + 1
                              /\ UNCHANGED <<last_summary, sumResult>>
                         ELSE /\ pc' = "qa"
                              /\ last_summary' =
                                   SummaryAfterSummarize(None, last_summary)
                              /\ sumResult' = "MissingCredential"
                              /\ UNCHANGED sumCalls
                    ELSE /\ pc' = "qa"
                         /\ UNCHANGED <<last_summary, sumCalls, sumResult>>
               ELSE /\ pc' = "qa"
                    /\ last_summary' =
                         SummaryAfterFailedExtraction(last_summary)
                    /\ UNCHANGED <<sumCalls, sumResult>>
    /\ UNCHANGED <<widgets, gemini_api_key, elevenlabs_api_key, qaOffered,
                   ttsOffered, answer, audio_bytes, lastEvent, qaCalls,
                   ttsCalls, gemOutcome, gemResult, qaResult, ttsResult,
                   summaryOf, lastGood, preText, preSummary>>

\* lines 167-173: the summarization request completes
SummarizeReturn ==
    /\ pc = "summarizing"
    /\ \E i \in GeminiOutcomes, b \in BOOLEAN :
         LET res == CallGeminiApi(i, b) IN
         /\ gemOutcome' = i
         /\ gemResult' = res
         /\ sumResult' = res.kind
         /\ last_summary' = SummaryAfterSummarize(res.ret, last_summary)
         /\ IF Truthy(res.ret)
            THEN /\ lastGood' = res.ret
                 /\ summaryOf' = extracted_pdf_text
            ELSE UNCHANGED <<lastGood, summaryOf>>
    /\ pc' = "qa"
    /\ UNCHANGED <<widgets, gemini_api_key, elevenlabs_api_key,
                   extracted_pdf_text, qaOffered, ttsOffered, answer,
                   audio_bytes, lastEvent, sumCalls, qaCalls, ttsCalls,
                   qaResult, ttsResult, preText, preSummary>>

\* lines 181-204, up to the point where the question request is sent
QuestionSection ==
    /\ pc = "qa"
    /\ qaOffered' = QuestionSectionShown(extracted_pdf_text)
    /\ IF /\ QuestionSectionShown(extracted_pdf_text)
          /\ clicked = "answer"
          /\ Truthy(gemini_api_key)
          /\ Truthy(user_question)
       THEN IF GeminiRequestSent(gemini_api_key)
            THEN /\ pc' = "answering"
                 /\ qaCalls' = qaCalls + 1
                 /\ UNCHANGED qaResult
            ELSE /\ pc' = "tts"
                 /\ qaResult' = "MissingCredential"
                 /\ UNCHANGED qaCalls
       ELSE /\ pc' = "tts"
            /\ UNCHANGED <<qaCalls, qaResult>>
    /\ UNCHANGED <<widgets, session, ttsOffered, answer, audio_bytes,
                   lastEvent, sumCalls, ttsCalls, gemOutcome, gemResult,
                   sumResult, ttsResult, summaryOf, lastGood, preText,
                   preSummary>>

\* lines 192-195: the question-answering request completes
AnswerReturn ==
    /\ pc = "answering"
    /\ \E i \in GeminiOutcomes, b \in BOOLEAN :
         LET res == CallGeminiApi(i, b) IN
         /\ gemOutcome' = i
         /\ gemResult' = res
         /\ qaResult' = res.kind
         /\ answer' = IF Truthy(res.ret) THEN res.ret ELSE None
    /\ pc' = "tts"
    /\ UNCHANGED <<widgets, session, qaOffered, ttsOffered, audio_bytes,
                   lastEvent, sumCalls, qaCalls, ttsCalls, sumResult,
                   ttsResult, summaryOf, lastGood, preText, preSummary>>

\* lines 208-225, up to the point where the speech request is sent
SpeechSection ==
    /\ pc = "tts"
    /\ ttsOffered' = SpeechSectionShown(last_summary)
    /\ IF /\ SpeechSectionShown(last_summary)
          /\ clicked = "audio"
          /\ Truthy(elevenlabs_api_key)
       THEN IF SpeechRequestSent(elevenlabs_api_key)
            THEN /\ pc' = "synthesizing"
                 /\ ttsCalls' = ttsCalls + 1
                 /\ UNCHANGED ttsResult
            ELSE /\ pc' = "idle"
                 /\ ttsResult' = "MissingCredential"
                 /\ UNCHANGED ttsCalls
       ELSE /\ pc' = "idle"
            /\ UNCHANGED <<ttsCalls, ttsResult>>
    /\ UNCHANGED <<widgets, session, qaOffered, answer, audio_bytes,
                   lastEvent, sumCalls, qaCalls, gemOutcome, gemResult,
                   sumResult, qaResult, summaryOf, lastGood, preText,
                   preSummary>>

\* lines 212-215: the speech request completes
SpeechReturn ==
    /\ pc = "synthesizing"
    /\ \E o \in SpeechOutcomes :
         LET res == TextToSpeechElevenlabs(o) IN
         /\ ttsResult' = res.kind
         /\ audio_bytes' = IF Truthy(res.ret) THEN res.ret ELSE None
    /\ pc' = "idle"
    /\ UNCHANGED <<widgets, session, qaOffered, ttsOffered, answer,
                   lastEvent, sumCalls, qaCalls, ttsCalls, gemOutcome,
                   gemResult, sumResult, qaResult, summaryOf, lastGood,
                   preText, preSummary>>

Next ==
    \/ \E f \in FileNames : Upload(f)
    \/ RemoveFile
    \/ \E k \in KeyValues : EditGeminiKey(k)
    \/ \E k \in KeyValues : EditElevenlabsKey(k)
    \/ \E q \in Questions : EditQuestion(q)
    \/ ClickGetAnswer
    \/ ClickGenerateAudio
    \/ Sidebar
    \/ UploadBranch
    \/ SummarizeReturn
    \/ QuestionSection
    \/ AnswerReturn
    \/ SpeechSection
    \/ SpeechReturn

Spec == Init /\ [][Next]_vars

\* ------------------------------------------------------------ properties
AfterUploadStore ==
    pc \in {"summarizing", "qa", "answering", "tts", "synthesizing", "idle"}

\* last_summary holds a summary generated from a document other than the
\* one whose text is stored
StaleSummary == Truthy(last_summary) /\ summaryOf # extracted_pdf_text

\* C1: in the rerun started by uploading a document, once its extracted
\* text is stored, last_summary no longer holds the summary produced from
\* an earlier document (whatever the model key is, and before any new
\* summarization call completes).
C1_PriorSummaryDiscarded ==
    (lastEvent = "upload" /\ uploaded_file # None /\ AfterUploadStore)
        => ~StaleSummary

\* C2: every user-triggered action performs at most one client network
\* call between the action and the next re-render.
C2_AtMostOneCallPerAction == runCalls <= 1

\* C3: once the rerun of an upload whose extraction fails or yields empty
\* text has finished, extracted_pdf_text is empty/None and last_summary is
\* None, the rerun sent no request, and neither the question nor the audio
\* action is offered for as long as the stored text stays empty.
C3_FailedExtractionClearsState ==
    pc = "idle" =>
        /\ uploaded_file \in {"corrupt.pdf", "blank.pdf"}
               => ~Truthy(extracted_pdf_text)
        /\ ~Truthy(extracted_pdf_text)
               => /\ last_summary = None
                  /\ runCalls = 0
                  /\ ~qaOffered
                  /\ ~ttsOffered

C3_Witness ==
    /\ pc = "idle"
    /\ lastEvent = "upload"
    /\ uploaded_file = "corrupt.pdf"
    /\ Truthy(preSummary)
    /\ Truthy(preText)
    /\ extracted_pdf_text = None

\* C4: while gemini_api_key is empty no step of the script sends a
\* language-model request (neither a summarization nor a question).
C4_NoGeminiRequestWithoutKey ==
    [][gemini_api_key = ""
          => (sumCalls' <= sumCalls /\ qaCalls' <= qaCalls)]_vars

C4_Witness ==
    /\ pc = "idle"
    /\ lastEvent = "answer"
    /\ gemini_api_key = ""
    /\ uploaded_file \in DocNames
    /\ Truthy(user_question)
    /\ sumCalls = 0 /\ qaCalls = 0

\* C5: a "Generate Podcast Audio" click made while the speech key is empty
\* sends no request to any endpoint before the next re-render.
C5_NoRequestWithoutSpeechKey ==
    (lastEvent = "audio" /\ elevenlabs_key_input = "") => runCalls = 0

\* C6: a question-answering request is sent only with non-empty extracted
\* text, model key and question; a speech request is sent only with a
\* non-empty last_summary and speech key.
C6_RequestPreconditions ==
    /\ qaCalls > 0 => /\ Truthy(extracted_pdf_text)
                      /\ Truthy(gemini_api_key)
                      /\ Truthy(user_question)
    /\ ttsCalls > 0 => /\ Truthy(last_summary)
                       /\ Truthy(elevenlabs_api_key)

C6_Witness ==
    /\ pc = "answering"
    /\ qaCalls = 1
    /\ uploaded_file = None

\* C7: a "Get Answer" or "Generate Podcast Audio" action whose client call
\* fails leaves extracted_pdf_text and last_summary as they were before
\* the action.
C7_FailedActionKeepsState ==
    (/\ pc = "idle"
     /\ \/ lastEvent = "answer" /\ qaResult \notin {"NoCall", "Ok"}
        \/ lastEvent = "audio" /\ ttsResult \notin {"NoCall", "Ok"})
        => /\ extracted_pdf_text = preText
           /\ last_summary = preSummary

\* C8: call_gemini_api returns the first candidate's first part text for a
\* well-formed 2xx envelope, and otherwise fails with the matching kind:
\* HttpError for a non-2xx status, MalformedResponse when a step of the
\* candidates[0].content.parts[0].text path is absent, TransportError for
\* a network-level failure.  (A 2xx body that is not JSON at all is only
\* required to fail.)
C8_GeminiResultKinds ==
    gemOutcome # 0 =>
        CASE gemOutcome = 1 ->
                 gemResult = [ret |-> None, kind |-> "TransportError"]
          [] gemOutcome \in {2, 3} ->
                 gemResult = [ret |-> None, kind |-> "HttpError"]
          [] gemOutcome = 4 ->
                 gemResult.ret = None /\ gemResult.kind # "Ok"
          [] gemOutcome \in 5..10 ->
                 gemResult = [ret |-> None, kind |-> "MalformedResponse"]
          [] gemOutcome = 11 ->
                 gemResult = [ret |-> "", kind |-> "Ok"]
          [] OTHER ->
                 gemResult = [ret |-> GenText(gemOutcome), kind |-> "Ok"]

\* C9: a non-empty last_summary implies a non-empty extracted_pdf_text.
C9_SummaryImpliesText ==
    Truthy(last_summary) => Truthy(extracted_pdf_text)

C9_Witness ==
    /\ pc = "idle"
    /\ lastEvent = "remove"
    /\ uploaded_file = None
    /\ Truthy(last_summary)

\* C10: when a summarization call completes, last_summary becomes the
\* returned text if that text is non-empty and None otherwise, whatever it
\* held before; last_summary is given a new non-empty value by no other
\* step, and a non-empty last_summary equals the text of the most recent
\* successful summarization.
C10_SummaryTracksLastSuccess ==
    [][/\ (pc = "summarizing" /\ pc' # "summarizing")
            => IF Truthy(gemResult'.ret)
               THEN last_summary' = gemResult'.ret
               ELSE last_summary' = None
       /\ (Truthy(last_summary') /\ last_summary' # last_summary)
            => (pc = "summarizing" /\ Truthy(gemResult'.ret))
       /\ Truthy(last_summary') => last_summary' = lastGood']_vars

C10_Witness ==
    /\ pc = "qa"
    /\ sumCalls = 1
    /\ sumResult \notin {"NoCall", "Ok"}
    /\ Truthy(preSummary)
    /\ last_summary = None

====
